---- MODULE Spec2Model ----
(***************************************************************************)
(* Model of src/server.js: the Express application (rate limiter, helmet,  *)
(* CORS gate, body parsers, request logger, route mounts, /health, 404),   *)
(* the listener and the SIGTERM handler.                                   *)
(*                                                                         *)
(* The middleware libraries are modelled by what they do for the options   *)
(* server.js passes them (Express 4 routing, cors, express-rate-limit's    *)
(* memory store, body-parser); the route groups and DataBaseConnect are    *)
(* not part of server.js and are modelled from the specification.          *)
(* Assumption of the environment: the port is free, so the bind succeeds.  *)
(***************************************************************************)
EXTENDS Integers, Sequences, FiniteSets, TLC

VARIABLES
    phase,      \* lifecycle of `server`: notStarted, listening, shuttingDown, stopped
    exited,     \* TRUE once the Node process has exited
    db,         \* outcome of DataBaseConnect(): pending, connected, failed
    conns,      \* connection -> the request it carries (or Idle)
    store,      \* limiter's store: client ip -> [totalHits, resetTime]
    now,        \* Date.now() in ms
    arrivals,   \* history: ip -> requests counted by the limiter in <<previous tick, this tick>>
    sigterms,   \* number of SIGTERM signals delivered
    closeCbs,   \* server.close callbacks waiting for the 'close' event
    terminated  \* number of 'Process terminated' log lines

vars == <<phase, exited, db, conns, store, now, arrivals, sigterms, closeCbs, terminated>>

----------------------------------------------------------------------------
(* Bounds of the model *)

MaxTicks == 2           \* the clock advances at most this many half-windows
MaxOver == 1            \* requests a client may send beyond max in one window
MaxSigterm == 2         \* SIGTERM deliveries
MaxLifeRequests == 3    \* requests counted by the limiter in the lifecycle specification

----------------------------------------------------------------------------
(* Configuration literals of server.js *)

windowMs == 15 * 60 * 1000
max == 100
optionsSuccessStatus == 200
jsonLimit == 10 * 1024
urlencodedLimit == 10 * 1024
allowedOrigins == <<"http://localhost:5173", "https://salesfrontend-eight.vercel.app">>

TickMs == windowMs \div 2

----------------------------------------------------------------------------
(* Requests *)

NoOrigin == "<no Origin header>"
Clients == {"ip1"}
Conns == {1, 2}

NoBody == [ctype |-> "none", len |-> 0, valid |-> TRUE]
JsonAtLimit == [ctype |-> "json", len |-> jsonLimit, valid |-> TRUE]
JsonOverLimit == [ctype |-> "json", len |-> jsonLimit + 1, valid |-> TRUE]
JsonMalformed == [ctype |-> "json", len |-> 2, valid |-> FALSE]
FormOverLimit == [ctype |-> "urlencoded", len |-> urlencodedLimit + 1, valid |-> TRUE]

\* a path is the sequence of its segments; a trailing "" is a trailing slash
HealthPath == <<"health">>
HealthUpperSlash == <<"HEALTH", "">>
AuthLogin == <<"api", "v1", "auth", "login">>
EmailRoot == <<"api", "v1", "email">>
UnknownPath == <<"unknown", "path">>

Requests(Ms, Ps, Os, Bs) ==
    [method : Ms, path : Ps, origin : Os, body : Bs, ip : Clients]

PipePaths == {HealthPath, HealthUpperSlash, AuthLogin, EmailRoot, UnknownPath}
PipeOrigins == {NoOrigin, "", allowedOrigins[1], allowedOrigins[2], "http://example.com"}

\* every method, path and origin; the POST requests also carry every kind of body
PipeRequests ==
    Requests({"GET", "OPTIONS", "HEAD", "POST"}, PipePaths, PipeOrigins, {NoBody})
      \cup Requests({"POST"}, PipePaths, PipeOrigins,
                    {JsonAtLimit, JsonOverLimit, JsonMalformed, FormOverLimit})

RateRequests ==
    Requests({"GET"}, {HealthPath}, {NoOrigin}, {NoBody})

LifeRequests ==
    Requests({"GET"}, {HealthPath, AuthLogin},
             {NoOrigin, "http://example.com"}, {NoBody})

Idle == [st |-> "idle"]
NoErr == [msg |-> "", status |-> 0]
Nothing == [kind |-> "none"]

----------------------------------------------------------------------------
(* Date.prototype.toISOString, for instants in January 1970 *)

toISOString(t) ==
    [Y |-> 1970, M |-> 1, D |-> 1 + (t \div 86400000),
     h |-> (t \div 3600000) % 24, mi |-> (t \div 60000) % 60,
     s |-> (t \div 1000) % 60, ms |-> t % 1000]

IsISO8601(ts) ==
    /\ DOMAIN ts = {"Y", "M", "D", "h", "mi", "s", "ms"}
    /\ ts.M \in 1..12 /\ ts.D \in 1..31
    /\ ts.h \in 0..23 /\ ts.mi \in 0..59 /\ ts.s \in 0..59 /\ ts.ms \in 0..999

----------------------------------------------------------------------------
(* Express 4 routing: the layer stack server.js registers, in order *)

toLowerCase(s) ==
    CASE s = "HEALTH" -> "health"
      [] s = "Health" -> "health"
      [] OTHER -> s

LowerPath(p) == [i \in 1..Len(p) |-> toLowerCase(p[i])]

StripSlash(p) ==
    IF Len(p) > 0 /\ p[Len(p)] = "" THEN SubSeq(p, 1, Len(p) - 1) ELSE p

\* the logger registered ahead of the body parsers
StackLoggerEarly ==
    << [name |-> "limiter",    kind |-> "use",   path |-> <<>>,                     method |-> "*"],
       [name |-> "helmet",     kind |-> "use",   path |-> <<>>,                     method |-> "*"],
       [name |-> "cors",       kind |-> "use",   path |-> <<>>,                     method |-> "*"],
       [name |-> "options",    kind |-> "route", path |-> <<"*">>,                  method |-> "OPTIONS"],
       [name |-> "logger",     kind |-> "use",   path |-> <<>>,                     method |-> "*"],
       [name |-> "json",       kind |-> "use",   path |-> <<>>,                     method |-> "*"],
       [name |-> "cookie",     kind |-> "use",   path |-> <<>>,                     method |-> "*"],
       [name |-> "urlencoded", kind |-> "use",   path |-> <<>>,                     method |-> "*"],
       [name |-> "email",      kind |-> "use",   path |-> <<"api", "v1", "email">>, method |-> "*"],
       [name |-> "auth",       kind |-> "use",   path |-> <<"api", "v1", "auth">>,  method |-> "*"],
       [name |-> "health",     kind |-> "route", path |-> <<"health">>,             method |-> "GET"],
       [name |-> "notFound",   kind |-> "use",   path |-> <<>>,                     method |-> "*"] >>

Stack ==
    << [name |-> "limiter",    kind |-> "use",   path |-> <<>>,                     method |-> "*"],
       [name |-> "helmet",     kind |-> "use",   path |-> <<>>,                     method |-> "*"],
       [name |-> "cors",       kind |-> "use",   path |-> <<>>,                     method |-> "*"],
       [name |-> "options",    kind |-> "route", path |-> <<"*">>,                  method |-> "OPTIONS"],
       [name |-> "json",       kind |-> "use",   path |-> <<>>,                     method |-> "*"],
       [name |-> "cookie",     kind |-> "use",   path |-> <<>>,                     method |-> "*"],
       [name |-> "urlencoded", kind |-> "use",   path |-> <<>>,                     method |-> "*"],
       [name |-> "logger",     kind |-> "use",   path |-> <<>>,                     method |-> "*"],
       [name |-> "email",      kind |-> "use",   path |-> <<"api", "v1", "email">>, method |-> "*"],
       [name |-> "auth",       kind |-> "use",   path |-> <<"api", "v1", "auth">>,  method |-> "*"],
       [name |-> "health",     kind |-> "route", path |-> <<"health">>,             method |-> "GET"],
       [name |-> "notFound",   kind |-> "use",   path |-> <<>>,                     method |-> "*"] >>

\* app.use(path, ...): case-insensitive prefix match on whole segments
UseMatches(prefix, p) ==
    /\ Len(p) >= Len(prefix)
    /\ SubSeq(LowerPath(p), 1, Len(prefix)) = prefix

\* the handler registered for every method (app.all / app.use)
RouteHandlesAll(routeMethod, m) == TRUE

\* a route handles HEAD with its GET handler when it has no HEAD handler
RouteHandles(routeMethod, m) ==
    \/ routeMethod = m
    \/ m = "HEAD" /\ routeMethod = "GET"

\* app.get/app.options(path, ...): case-insensitive, optional trailing slash
RouteMatches(layer, r) ==
    /\ RouteHandles(layer.method, r.method)
    /\ \/ layer.path = <<"*">>
       \/ LowerPath(StripSlash(r.path)) = layer.path

Matches(layer, r) ==
    IF layer.kind = "use" THEN UseMatches(layer.path, r.path)
    ELSE RouteMatches(layer, r)

Idx(name) == CHOOSE i \in 1..Len(Stack) : Stack[i].name = name

\* next(): the first later layer that matches; none left -> Express's final handler
NextLayer(i, r) ==
    LET later == {j \in (i + 1)..Len(Stack) : Matches(Stack[j], r)}
    IN  IF later = {} THEN "final"
        ELSE Stack[CHOOSE j \in later : \A k \in later : j <= k].name

\* next() called by layer `name`
Next_(r, name) ==
    [r EXCEPT !.ran = Append(@, name), !.st = NextLayer(Idx(name), r)]

\* next(err) called by layer `name`: no error middleware is registered
NextErr(r, name, e) ==
    [r EXCEPT !.ran = Append(@, name), !.st = "final", !.err = e]

\* the layer ended the response
End(r, name, status, body) ==
    [r EXCEPT !.ran = Append(@, name), !.st = "done",
              !.status = status, !.resBody = body]

\* res.json(): a HEAD response carries no body
Json(r, body) == IF r.method = "HEAD" THEN Nothing ELSE body

At(c, name) == conns[c].st = name

----------------------------------------------------------------------------
(* State after the module body of server.js has run: DataBaseConnect() has  *)
(* been called and not awaited, app.listen() has been called and its       *)
(* callback is pending, the SIGTERM handler is registered.                 *)

Init ==
    /\ phase = "notStarted"
    /\ exited = FALSE
    /\ db = "pending"
    /\ conns = [c \in Conns |-> Idle]
    /\ store = [ip \in Clients |-> [totalHits |-> 0, resetTime |-> 0]]
    /\ now = 0
    /\ arrivals = [ip \in Clients |-> <<0, 0>>]
    /\ sigterms = 0
    /\ closeCbs = 0
    /\ terminated = 0

life == <<phase, exited, sigterms, closeCbs, terminated>>
clock == <<now, arrivals>>

----------------------------------------------------------------------------
(* DataBaseConnect(): its promise settles at any time; server.js never     *)
(* looks at the result                                                     *)

DbConnected ==
    /\ db = "pending" /\ ~exited
    /\ db' = "connected"
    /\ UNCHANGED <<life, conns, store, clock>>

DbFailed ==
    /\ db = "pending" /\ ~exited
    /\ db' = "failed"
    /\ UNCHANGED <<life, conns, store, clock>>

----------------------------------------------------------------------------
(* app.listen(PORT, callback): the listener is bound, whatever db is *)

\* the bind waiting for the database connection
ListenAfterDb == phase = "notStarted" /\ db = "connected"

ListenGuard == phase = "notStarted"

Listen ==
    /\ ListenGuard
    /\ phase' = "listening"
    /\ UNCHANGED <<exited, db, conns, store, clock, sigterms, closeCbs, terminated>>

\* a connection is accepted and its request enters the application
Receive(c, q, cap) ==
    /\ phase = "listening"
    /\ conns[c] = Idle
    /\ store[q.ip].totalHits < cap
    /\ conns' = [conns EXCEPT ![c] =
            [method |-> q.method, path |-> q.path, origin |-> q.origin,
             body |-> q.body, ip |-> q.ip,
             st |-> NextLayer(0, q), ran |-> <<>>, err |-> NoErr,
             status |-> 0, resBody |-> Nothing, headers |-> {},
             log |-> <<>>, parsed |-> "none", cookies |-> FALSE,
             rolling |-> 0, inWindow |-> 0]]
    /\ UNCHANGED <<life, db, store, clock>>

----------------------------------------------------------------------------
(* limiter = rateLimit({windowMs, max, standardHeaders: true})             *)
(* The memory store keeps, per client, the hits of the current window and  *)
(* the instant the window ends; a hit at or after that instant starts a    *)
(* new window.                                                             *)

\* the limit applied one request late
ExceededOffByOne(totalHits) == totalHits > max + 1

Exceeded(totalHits) == totalHits > max

RateLimitHeaders == {"RateLimit-Limit", "RateLimit-Remaining", "RateLimit-Reset"}

Limiter(c) ==
    /\ At(c, "limiter")
    /\ LET r == conns[c]
           cl == store[r.ip]
           expired == cl.resetTime <= now
           hits == (IF expired THEN 0 ELSE cl.totalHits) + 1
           reset == IF expired THEN now + windowMs ELSE cl.resetTime
           prev == arrivals[r.ip][1]
           cur == arrivals[r.ip][2]
           r1 == [r EXCEPT !.headers = @ \cup RateLimitHeaders,
                           !.rolling = prev + cur,
                           !.inWindow = IF expired THEN 0
                                        ELSE cur + (IF reset - windowMs < now THEN prev ELSE 0)]
       IN  /\ store' = [store EXCEPT ![r.ip] = [totalHits |-> hits, resetTime |-> reset]]
           /\ arrivals' = [arrivals EXCEPT ![r.ip] = <<prev, cur + 1>>]
           /\ conns' = [conns EXCEPT ![c] =
                  IF Exceeded(hits)
                  THEN End(r1, "limiter", 429,
                           [kind |-> "text", text |-> "Too many requests, please try again later."])
                  ELSE Next_(r1, "limiter")]
    /\ UNCHANGED <<life, db, now>>

\* app.use(helmet())
Helmet(c) ==
    /\ At(c, "helmet")
    /\ conns' = [conns EXCEPT ![c] =
            Next_([@ EXCEPT !.headers = @ \cup {"helmet"}], "helmet")]
    /\ UNCHANGED <<life, db, store, clock>>

----------------------------------------------------------------------------
(* corsOptions.origin and the cors middleware *)

indexOf(seq, x) ==
    IF \E i \in 1..Len(seq) : seq[i] = x
    THEN (CHOOSE i \in 1..Len(seq) : seq[i] = x /\ \A j \in 1..(i - 1) : seq[j] # x) - 1
    ELSE -1

\* !origin
Falsy(origin) == origin = NoOrigin \/ origin = ""

\* indexOf tested as a truth value: the first listed origin is refused
originSkipsFirst(o) == Falsy(o) \/ indexOf(allowedOrigins, o) > 0

\* TRUE: callback(null, true); FALSE: callback(new Error('Not allowed by CORS'))
origin(o) == Falsy(o) \/ indexOf(allowedOrigins, o) # -1

\* the method compared without upper-casing
IsPreflightLower(method) == method = "options"

\* the cors middleware answers OPTIONS itself (preflightContinue is not set)
IsPreflight(method) == method = "OPTIONS"

CorsHeaders(r) ==
    {"Access-Control-Allow-Credentials", "Vary"}
      \cup (IF Falsy(r.origin) THEN {} ELSE {"Access-Control-Allow-Origin"})

PreflightHeaders ==
    {"Access-Control-Allow-Methods", "Access-Control-Allow-Headers", "Content-Length"}

\* cors(corsOptions), registered by app.use and again by app.options('*')
CorsMiddleware(c) ==
    /\ At(c, "cors") \/ At(c, "options")
    /\ LET r == conns[c]
           r1 == [r EXCEPT !.headers = @ \cup CorsHeaders(r)]
       IN  conns' = [conns EXCEPT ![c] =
               IF ~origin(r.origin)
               THEN NextErr(r, r.st, [msg |-> "Not allowed by CORS", status |-> 0])
               ELSE IF IsPreflight(r.method)
               THEN End([r1 EXCEPT !.headers = @ \cup PreflightHeaders],
                        r.st, optionsSuccessStatus, Nothing)
               ELSE Next_(r1, r.st)]
    /\ UNCHANGED <<life, db, store, clock>>

----------------------------------------------------------------------------
(* body parsers, cookie parser, logger *)

BodyParser(r, name, ctype, limit) ==
    IF r.body.ctype # ctype THEN Next_(r, name)
    ELSE IF r.body.len > limit
    THEN NextErr(r, name, [msg |-> "request entity too large", status |-> 413])
    ELSE IF ~r.body.valid
    THEN NextErr(r, name, [msg |-> "parse failed", status |-> 400])
    ELSE Next_([r EXCEPT !.parsed = ctype], name)

JsonParser(c) ==
    /\ At(c, "json")
    /\ conns' = [conns EXCEPT ![c] = BodyParser(@, "json", "json", jsonLimit)]
    /\ UNCHANGED <<life, db, store, clock>>

CookieParser(c) ==
    /\ At(c, "cookie")
    /\ conns' = [conns EXCEPT ![c] = Next_([@ EXCEPT !.cookies = TRUE], "cookie")]
    /\ UNCHANGED <<life, db, store, clock>>

UrlencodedParser(c) ==
    /\ At(c, "urlencoded")
    /\ conns' = [conns EXCEPT ![c] =
            BodyParser(@, "urlencoded", "urlencoded", urlencodedLimit)]
    /\ UNCHANGED <<life, db, store, clock>>

\* the timestamp written with toLocaleString
LogLineLocale(r) == [method |-> r.method, path |-> r.path, ts |-> [locale |-> now]]

LogLine(r) == [method |-> r.method, path |-> r.path, ts |-> toISOString(now)]

Logger(c) ==
    /\ At(c, "logger")
    /\ conns' = [conns EXCEPT ![c] =
            Next_([@ EXCEPT !.log = Append(@, LogLine(conns[c]))], "logger")]
    /\ UNCHANGED <<life, db, store, clock>>

----------------------------------------------------------------------------
(* routes *)

\* a mounted router answers the request or, with no matching route, calls next()
RouteGroup(c, name) ==
    /\ At(c, name)
    /\ \E answered \in BOOLEAN :
         conns' = [conns EXCEPT ![c] =
             IF answered THEN End(@, name, 200, [kind |-> "route", group |-> name])
             ELSE Next_(@, name)]
    /\ UNCHANGED <<life, db, store, clock>>

sequenceRoutes(c) == RouteGroup(c, "email")
authRoutes(c) == RouteGroup(c, "auth")

\* a health check that reports the database
HealthChecksDb(c) ==
    /\ At(c, "health")
    /\ conns' = [conns EXCEPT ![c] =
            End(@, "health", IF db = "connected" THEN 200 ELSE 503,
                Json(@, [kind |-> "json", status |-> "degraded",
                         timestamp |-> toISOString(now)]))]
    /\ UNCHANGED <<life, db, store, clock>>

HealthBody == [kind |-> "json", status |-> "healthy", timestamp |-> toISOString(now)]

Health(c) ==
    /\ At(c, "health")
    /\ conns' = [conns EXCEPT ![c] = End(@, "health", 200, Json(@, HealthBody))]
    /\ UNCHANGED <<life, db, store, clock>>

NotFoundBody(r) == [kind |-> "json", error |-> "Not Found", path |-> r.path]

NotFound(c) ==
    /\ At(c, "notFound")
    /\ conns' = [conns EXCEPT ![c] = End(@, "notFound", 404, Json(@, NotFoundBody(@)))]
    /\ UNCHANGED <<life, db, store, clock>>

\* no error middleware is registered: Express's final handler answers with
\* the error's status, 500 when it has none
FinalHandler(c) ==
    /\ At(c, "final")
    /\ LET r == conns[c]
       IN  conns' = [conns EXCEPT ![c] =
               [r EXCEPT !.st = "done",
                         !.status = IF r.err.status # 0 THEN r.err.status
                                    ELSE IF r.err.msg # "" THEN 500 ELSE 404,
                         !.resBody = [kind |-> "html"]]]
    /\ UNCHANGED <<life, db, store, clock>>

\* the response has been sent and the connection closes
Release(c) ==
    /\ At(c, "done")
    /\ conns' = [conns EXCEPT ![c] = Idle]
    /\ UNCHANGED <<life, db, store, clock>>

----------------------------------------------------------------------------
(* process.on('SIGTERM'), server.close(callback) *)

InFlight(c) == conns[c] # Idle

Sigterm ==
    /\ phase # "notStarted" /\ ~exited
    /\ sigterms < MaxSigterm
    /\ sigterms' = sigterms + 1
    /\ closeCbs' = closeCbs + 1
    /\ phase' = IF phase = "listening" THEN "shuttingDown" ELSE phase
    /\ UNCHANGED <<exited, terminated, db, conns, store, clock>>

\* 'Process terminated' logged without waiting for the connections
DrainedAlways == TRUE

Drained == \A c \in Conns : ~InFlight(c)

\* the server's 'close' event: every callback given to server.close runs
CloseCallback ==
    /\ phase \in {"shuttingDown", "stopped"}
    /\ closeCbs > 0
    /\ Drained
    /\ terminated' = terminated + closeCbs
    /\ closeCbs' = 0
    /\ phase' = "stopped"
    /\ UNCHANGED <<exited, sigterms, db, conns, store, clock>>

\* server.js never calls process.exit: Node exits once nothing keeps the
\* event loop alive (no listener, no callback pending, no database connection)
Exit ==
    /\ phase = "stopped" /\ ~exited
    /\ closeCbs = 0
    /\ db = "failed"
    /\ exited' = TRUE
    /\ UNCHANGED <<phase, sigterms, closeCbs, terminated, db, conns, store, clock>>

\* time passes by half a window
Tick ==
    /\ now < MaxTicks * TickMs
    /\ now' = now + TickMs
    /\ arrivals' = [ip \in Clients |-> <<arrivals[ip][2], 0>>]
    /\ UNCHANGED <<life, db, conns, store>>

----------------------------------------------------------------------------
(* Specifications *)

\* the pipeline, one connection at a time, every kind of request
Next ==
    \/ Listen
    \/ DbConnected
    \/ DbFailed
    \/ \E q \in PipeRequests : Receive(1, q, max + MaxOver)
    \/ Limiter(1)
    \/ Helmet(1)
    \/ CorsMiddleware(1)
    \/ JsonParser(1)
    \/ CookieParser(1)
    \/ UrlencodedParser(1)
    \/ Logger(1)
    \/ sequenceRoutes(1)
    \/ authRoutes(1)
    \/ Health(1)
    \/ NotFound(1)
    \/ FinalHandler(1)
    \/ Release(1)

Spec == Init /\ [][Next]_vars

\* the limiter over time: one client sending GET /health
NextRate ==
    \/ Listen
    \/ Tick
    \/ \E q \in RateRequests : Receive(1, q, max + MaxOver)
    \/ Limiter(1)
    \/ Helmet(1)
    \/ CorsMiddleware(1)
    \/ JsonParser(1)
    \/ CookieParser(1)
    \/ UrlencodedParser(1)
    \/ Logger(1)
    \/ Health(1)
    \/ Release(1)

SpecRate == Init /\ [][NextRate]_vars

\* the lifecycle: concurrent connections, SIGTERM, the database
NextLife ==
    \/ Listen
    \/ DbConnected
    \/ DbFailed
    \/ Sigterm
    \/ CloseCallback
    \/ Exit
    \/ \E c \in Conns : \E q \in LifeRequests : Receive(c, q, MaxLifeRequests)
    \/ \E c \in Conns : Limiter(c)
    \/ \E c \in Conns : Helmet(c)
    \/ \E c \in Conns : CorsMiddleware(c)
    \/ \E c \in Conns : JsonParser(c)
    \/ \E c \in Conns : CookieParser(c)
    \/ \E c \in Conns : UrlencodedParser(c)
    \/ \E c \in Conns : Logger(c)
    \/ \E c \in Conns : authRoutes(c)
    \/ \E c \in Conns : Health(c)
    \/ \E c \in Conns : NotFound(c)
    \/ \E c \in Conns : FinalHandler(c)
    \/ \E c \in Conns : Release(c)

SpecLife == Init /\ [][NextLife]_vars

\* every in-flight request completes, the 'close' event is delivered, the
\* database connection settles, and Node exits when nothing keeps it alive
FairLife ==
    /\ SpecLife
    /\ \A c \in Conns :
         WF_vars(\/ Limiter(c) \/ Helmet(c) \/ CorsMiddleware(c) \/ JsonParser(c)
                 \/ CookieParser(c) \/ UrlencodedParser(c) \/ Logger(c)
                 \/ authRoutes(c) \/ Health(c) \/ NotFound(c) \/ FinalHandler(c)
                 \/ Release(c))
    /\ WF_vars(Listen)
    /\ WF_vars(DbConnected \/ DbFailed)
    /\ WF_vars(CloseCallback)
    /\ WF_vars(Exit)

----------------------------------------------------------------------------
(* Vocabulary of the properties *)

Live == {c \in Conns : conns[c] # Idle}
Answered == {c \in Conns : conns[c].st = "done"}

InRan(r, name) == \E i \in 1..Len(r.ran) : r.ran[i] = name

Middleware == <<"limiter", "helmet", "cors", "json", "cookie", "urlencoded", "logger">>
BeforeParsers == <<"limiter", "helmet", "cors">>
RouteStages == {"email", "auth", "health", "notFound"}
AfterCors == {"json", "cookie", "urlencoded", "logger"} \cup RouteStages

ListedOrigins == {"http://localhost:5173", "https://salesfrontend-eight.vercel.app"}

\* the request was not over the limit of its window when the limiter counted it
Admitted(r) == r.inWindow < 100
OriginPasses(r) == r.origin \in ListedOrigins \cup {NoOrigin, ""}
BodyAccepted(r) ==
    r.body.ctype \in {"json", "urlencoded"} => r.body.len <= 10240 /\ r.body.valid
ReachesLogger(r) ==
    Admitted(r) /\ OriginPasses(r) /\ r.method # "OPTIONS" /\ BodyAccepted(r)

Continued(r) == r.st = "json" \/ InRan(r, "json")
CorsRejected(r) ==
    /\ r.err.msg = "Not allowed by CORS"
    /\ r.ran = BeforeParsers
    /\ r.st \in {"final", "done"}
    /\ r.st = "done" => r.status = 500

PathUnder(p, prefix) == Len(p) >= Len(prefix) /\ SubSeq(p, 1, Len(prefix)) = prefix

----------------------------------------------------------------------------
(* C1, as stated: the CORS gate lets a request continue exactly when its   *)
(* Origin is absent or one of the two listed origins, and a request with   *)
(* any other Origin is rejected with the CORS error and reaches no later   *)
(* stage.                                                                  *)
C1_Claim ==
    \A c \in Live :
        LET r == conns[c]
        IN  InRan(r, "cors") =>
              /\ Continued(r) <=> r.origin \in ListedOrigins \cup {NoOrigin}
              /\ r.origin \notin ListedOrigins \cup {NoOrigin} => CorsRejected(r)

(* C1, amended: a request that reaches the CORS gate with an Origin that   *)
(* is absent, empty or listed continues to the JSON parser unless it is an *)
(* OPTIONS request, which the gate answers itself with 200; a request with *)
(* any other Origin is rejected with the CORS error and reaches no later   *)
(* stage.                                                                  *)
C1_Gate ==
    \A c \in Live :
        LET r == conns[c]
        IN  InRan(r, "cors") =>
              /\ OriginPasses(r) /\ r.method # "OPTIONS" =>
                    Continued(r) /\ r.err.msg # "Not allowed by CORS"
              /\ OriginPasses(r) /\ r.method = "OPTIONS" =>
                    r.st = "done" /\ r.status = 200 /\ r.ran = BeforeParsers
              /\ ~OriginPasses(r) => CorsRejected(r)

C1_Witness ==
    \E c \in Answered :
        /\ conns[c].method = "POST" /\ conns[c].path = AuthLogin
        /\ conns[c].origin = "http://example.com"
        /\ conns[c].status = 500

----------------------------------------------------------------------------
ShortCircuited(r) ==
    /\ r.st = "done" /\ r.status = 429
    /\ r.ran = <<"limiter">>
    /\ RateLimitHeaders \subseteq r.headers

(* C2, as stated: a request that arrives after 100 requests of its client  *)
(* in the preceding 15 minutes (a rolling window) is rejected by the       *)
(* limiter with the rate-limit headers, and no later stage runs.           *)
C2_Claim ==
    \A c \in Live :
        LET r == conns[c]
        IN  InRan(r, "limiter") /\ r.rolling >= 100 => ShortCircuited(r)

(* C2, amended: the limiter counts in fixed 15-minute windows, a window    *)
(* starting with the client's first request after the previous one ended;  *)
(* a request that arrives after 100 requests of its client in the current  *)
(* window is rejected with the rate-limit headers, and no later stage      *)
(* runs; a request with fewer before it is not rejected by the limiter.    *)
C2_Window ==
    \A c \in Live :
        LET r == conns[c]
        IN  InRan(r, "limiter") =>
              /\ r.inWindow >= 100 => ShortCircuited(r)
              /\ r.inWindow < 100 => r.status # 429 /\ RateLimitHeaders \subseteq r.headers

C2_Witness ==
    \E c \in Answered :
        /\ conns[c].inWindow = 100 /\ conns[c].status = 429
        /\ now > 0

----------------------------------------------------------------------------
Healthy(r) ==
    /\ r.status = 200
    /\ r.resBody.kind = "json"
    /\ r.resBody.status = "healthy"
    /\ IsISO8601(r.resBody.timestamp)

(* C3, as stated: every answered GET /health request has status 200 and a *)
(* body with status "healthy" and an ISO-8601 timestamp.                   *)
C3_Claim ==
    \A c \in Answered :
        conns[c].method = "GET" /\ conns[c].path = HealthPath => Healthy(conns[c])

(* C3, amended: every GET /health request that the rate limiter admits,    *)
(* whose Origin passes the CORS gate and whose body the parsers accept is  *)
(* answered 200 with status "healthy" and an ISO-8601 timestamp, whatever  *)
(* the state of the database connection.                                   *)
C3_Health ==
    \A c \in Answered :
        LET r == conns[c]
        IN  r.method = "GET" /\ r.path = HealthPath /\ ReachesLogger(r) => Healthy(r)

C3_Witness ==
    \E c \in Answered :
        /\ conns[c].method = "GET" /\ conns[c].path = HealthPath
        /\ conns[c].status = 200
        /\ db = "failed"
        /\ store[conns[c].ip].totalHits > 1

----------------------------------------------------------------------------
NotFoundJson(r) == [kind |-> "json", error |-> "Not Found", path |-> r.path]

(* C4, as stated: every answered request whose path is not under           *)
(* /api/v1/email or /api/v1/auth and that is not GET /health has status    *)
(* 404 and the JSON body {error: "Not Found", path: its path}.             *)
C4_Claim ==
    \A c \in Answered :
        LET r == conns[c]
        IN  /\ ~PathUnder(r.path, <<"api", "v1", "email">>)
            /\ ~PathUnder(r.path, <<"api", "v1", "auth">>)
            /\ ~(r.method = "GET" /\ r.path = HealthPath)
            => r.status = 404 /\ r.resBody = NotFoundJson(r)

HealthRoute(r) ==
    r.method \in {"GET", "HEAD"} /\ LowerPath(StripSlash(r.path)) = <<"health">>

(* C4, amended: every request that reaches the routes (admitted by the     *)
(* limiter, Origin passing the CORS gate, not OPTIONS, body accepted by    *)
(* the parsers), whose path is not under /api/v1/email or /api/v1/auth and *)
(* that does not match the /health route (GET or HEAD, any letter case,    *)
(* optional trailing slash) is answered 404, with the JSON body            *)
(* {error: "Not Found", path: its path} unless the method is HEAD, whose   *)
(* response has no body.                                                   *)
C4_NotFound ==
    \A c \in Answered :
        LET r == conns[c]
        IN  /\ ReachesLogger(r)
            /\ ~PathUnder(LowerPath(r.path), <<"api", "v1", "email">>)
            /\ ~PathUnder(LowerPath(r.path), <<"api", "v1", "auth">>)
            /\ ~HealthRoute(r)
            => /\ r.status = 404
               /\ r.resBody = IF r.method = "HEAD" THEN Nothing ELSE NotFoundJson(r)

C4_Witness ==
    \E c \in Answered :
        /\ conns[c].method = "GET" /\ conns[c].path = UnknownPath
        /\ conns[c].status = 404
        /\ conns[c].resBody.path = <<"unknown", "path">>

----------------------------------------------------------------------------
ReachedAfterCors(r) == \E i \in 1..Len(r.ran) : r.ran[i] \in AfterCors

(* C5, as stated: every answered OPTIONS request has status 200 and was    *)
(* reached by no body parser, logger, route group or 404 handler.          *)
C5_Claim ==
    \A c \in Answered :
        conns[c].method = "OPTIONS" =>
            conns[c].status = 200 /\ ~ReachedAfterCors(conns[c])

(* C5, amended: every OPTIONS request that the rate limiter admits and     *)
(* whose Origin passes the CORS gate is answered 200 by the gate's         *)
(* preflight short-circuit; no OPTIONS request, admitted or not, reaches a *)
(* body parser, the logger, a route group, /health or the 404 handler.     *)
C5_Preflight ==
    \A c \in Live :
        LET r == conns[c]
        IN  r.method = "OPTIONS" =>
              /\ ~ReachedAfterCors(r) /\ r.st \notin AfterCors \cup {"options"}
              /\ r.st = "done" /\ Admitted(r) /\ OriginPasses(r) =>
                    r.status = 200 /\ r.ran = BeforeParsers

C5_Witness ==
    \E c \in Answered :
        /\ conns[c].method = "OPTIONS" /\ conns[c].path = UnknownPath
        /\ conns[c].origin = "https://salesfrontend-eight.vercel.app"
        /\ conns[c].status = 200

----------------------------------------------------------------------------
(* C6: the stages that ran for a request ran in the order rate limiter,    *)
(* security headers, CORS gate, JSON parser, cookie parser, URL-encoded    *)
(* parser, logger, and a route group, /health or the 404 handler ran only  *)
(* after all seven; no stage ran before one listed earlier had run.        *)
C6_Order ==
    \A c \in Live :
        LET r == conns[c]
        IN  \A i \in 1..Len(r.ran) :
              \/ i <= Len(Middleware) /\ r.ran[i] = Middleware[i]
              \/ i > Len(Middleware) /\ r.ran[i] \in RouteStages

C6_Witness ==
    \E c \in Answered :
        /\ conns[c].ran = Middleware \o <<"auth", "notFound">>
        /\ conns[c].parsed = "json"

----------------------------------------------------------------------------
(* C7, as stated: every answered request has exactly one log line.         *)
C7_Claim ==
    \A c \in Answered : Len(conns[c].log) = 1

LoggerStep(c) ==
    /\ conns[c].st = "logger"
    /\ conns'[c] # conns[c]

(* C7, amended: for every request that reaches the logger (admitted by the *)
(* limiter, Origin passing the CORS gate, not OPTIONS, body accepted by    *)
(* the parsers) the logger emits exactly one line with the method, the     *)
(* path and an ISO-8601 timestamp before the next handler runs, and it     *)
(* neither ends the request nor changes its method, path, headers or body; *)
(* a request answered before the logger produces no log line.              *)
C7_Logger ==
    /\ [](\A c \in Live :
            LET r == conns[c]
            IN  /\ Len(r.log) = (IF InRan(r, "logger") THEN 1 ELSE 0)
                /\ r.st = "done" /\ ReachesLogger(r) => InRan(r, "logger")
                /\ InRan(r, "logger") =>
                      /\ ReachesLogger(r)
                      /\ r.log[1].method = r.method /\ r.log[1].path = r.path
                      /\ IsISO8601(r.log[1].ts))
    /\ [][\A c \in Conns : LoggerStep(c) =>
            /\ Len(conns'[c].log) = 1
            /\ conns'[c].st \in RouteStages
            /\ conns'[c].status = 0 /\ conns'[c].err = NoErr
            /\ conns'[c].method = conns[c].method /\ conns'[c].path = conns[c].path
            /\ conns'[c].origin = conns[c].origin /\ conns'[c].body = conns[c].body
            /\ conns'[c].headers = conns[c].headers
            /\ conns'[c].parsed = conns[c].parsed]_vars

C7_Witness ==
    \E c \in Answered :
        /\ Len(conns[c].log) = 1
        /\ conns[c].log[1].method = "POST" /\ conns[c].log[1].path = AuthLogin
        /\ conns[c].status = 200

----------------------------------------------------------------------------
Rank(p) ==
    CASE p = "notStarted" -> 0
      [] p = "listening" -> 1
      [] p = "shuttingDown" -> 2
      [] p = "stopped" -> 3

Pending(c) == conns[c] # Idle /\ conns[c].st # "done"

(* C8: once SIGTERM has been delivered no connection is accepted; no       *)
(* request in flight is dropped before it is answered; 'Process            *)
(* terminated' is logged, and the state becomes stopped, only when no      *)
(* request is in flight; the lifecycle moves only forward, one state at a  *)
(* time, also when SIGTERM is delivered again.                             *)
C8_Shutdown ==
    /\ [](/\ sigterms > 0 => phase \in {"shuttingDown", "stopped"}
          /\ terminated > 0 => phase = "stopped"
          /\ phase = "stopped" => \A c \in Conns : conns[c] = Idle)
    /\ [][/\ Rank(phase') \in {Rank(phase), Rank(phase) + 1}
          /\ \A c \in Conns :
               /\ sigterms > 0 /\ conns[c] = Idle => conns'[c] = Idle
               /\ Pending(c) => conns'[c] # Idle
          /\ sigterms' # sigterms => conns' = conns
          /\ terminated' # terminated => \A c \in Conns : conns[c] = Idle]_vars

C8_Witness ==
    /\ phase = "stopped" /\ sigterms = 2 /\ terminated = 2
    /\ store["ip1"].totalHits >= 2

----------------------------------------------------------------------------
(* C9: the listener binds whatever the database connection does: while the *)
(* server has not started, the bind is possible with the connection        *)
(* pending, established or failed, and the process ends only after the     *)
(* server has stopped, never because the connection failed.                *)
C9_NotGated ==
    /\ phase = "notStarted" => ENABLED Listen
    /\ exited => phase = "stopped"

C9_Witness ==
    \E c \in Answered :
        /\ conns[c].status = 200 /\ conns[c].path = HealthPath
        /\ db = "failed" /\ phase = "listening"

----------------------------------------------------------------------------
(* C10, as stated: when every in-flight request completes, a SIGTERM       *)
(* received while listening is eventually followed by the stopped state    *)
(* and the exit of the process.                                            *)
C10_Claim == (phase = "shuttingDown") ~> (phase = "stopped" /\ exited)

\* the part of C10 the handler does achieve: the stopped state is reached
ShutdownCompletes == (phase = "shuttingDown") ~> (phase = "stopped")

====
